---- MODULE Spec2Model ----
(***************************************************************************)
(* Model of src/lambda/index.py: the S3 Object Lambda handler that fetches *)
(* the requested object, redacts e-mail addresses in .txt objects and      *)
(* writes the result back to the requester.                                *)
(*                                                                         *)
(* Strings (the URL, the key, the decoded text) are sequences of Unicode   *)
(* code points; byte strings (the object body, the output) are sequences   *)
(* of integers 0..255.                                                     *)
(***************************************************************************)
EXTENDS Integers, Sequences, FiniteSets, TLC

(***************************************************************************)
(* Bounds of the model.                                                    *)
(***************************************************************************)
\* An enumerated object body is the concatenation of at most MaxChunks chunks.
MaxChunks == 3

(***************************************************************************)
(* Sequence helpers (Python str / bytes primitives).                       *)
(***************************************************************************)
\* s[i:j] with 1-based inclusive bounds; empty when i > j.
Slice(s, i, j) == IF i > j THEN <<>> ELSE SubSeq(s, i, j)

\* s.find(c, from): the smallest index >= from holding c, 0 when there is none.
Find(s, c, from) ==
    LET hits == {i \in from..Len(s) : s[i] = c}
    IN  IF hits = {} THEN 0 ELSE CHOOSE i \in hits : \A j \in hits : i <= j

\* s.rfind(c): the largest index holding c, 0 when there is none.
RFind(s, c) ==
    LET hits == {i \in 1..Len(s) : s[i] = c}
    IN  IF hits = {} THEN 0 ELSE CHOOSE i \in hits : \A j \in hits : i >= j

\* str.lower() on the ASCII range: "A".."Z" become "a".."z".
Lower(s) == [i \in 1..Len(s) |-> IF s[i] \in 65..90 THEN s[i] + 32 ELSE s[i]]

\* str.endswith(suffix)
EndsWith(s, suffix) ==
    /\ Len(s) >= Len(suffix)
    /\ Slice(s, Len(s) - Len(suffix) + 1, Len(s)) = suffix

\* str.lstrip("/"): every leading "/" is removed.
RECURSIVE LStripSlash(_)
LStripSlash(s) == IF s # <<>> /\ Head(s) = 47 THEN LStripSlash(Tail(s)) ELSE s

(***************************************************************************)
(* urllib.parse.urlparse(url).path                                         *)
(***************************************************************************)
\* Characters a URL scheme may hold: letters, digits, "+", "-", ".".
SchemeChars == (97..122) \cup (65..90) \cup (48..57) \cup {43, 45, 46}

\* The schemes of the modelled URLs whose last path segment may carry
\* ";parameters": "", "http", "https".
UsesParams == {<<>>, <<104,116,116,112>>, <<104,116,116,112,115>>}

\* urlsplit, first step: [scheme, rest] where rest follows "scheme:".
SplitScheme(url) ==
    LET i == Find(url, 58, 1)
    IN  IF /\ i > 1
           /\ url[1] \in (97..122) \cup (65..90)
           /\ \A j \in 1..(i-1) : url[j] \in SchemeChars
        THEN [scheme |-> Lower(Slice(url, 1, i-1)), rest |-> Slice(url, i+1, Len(url))]
        ELSE [scheme |-> <<>>, rest |-> url]

\* urlsplit, second step: drop "//netloc", which ends at the first of "/", "?", "#".
DropNetloc(rest) ==
    IF Len(rest) >= 2 /\ rest[1] = 47 /\ rest[2] = 47
    THEN LET ends == {i \in 3..Len(rest) : rest[i] \in {47, 63, 35}}
             delim == IF ends = {} THEN Len(rest) + 1
                      ELSE CHOOSE i \in ends : \A j \in ends : i <= j
         IN  Slice(rest, delim, Len(rest))
    ELSE rest

\* s.split(c, 1)[0]: the part before the first c.
Before(s, c) ==
    LET i == Find(s, c, 1) IN IF i = 0 THEN s ELSE Slice(s, 1, i-1)

\* _splitparams: cut ";parameters" off the last path segment.
SplitParams(p) ==
    LET slash == RFind(p, 47)
        i == IF slash > 0 THEN Find(p, 59, slash) ELSE Find(p, 59, 1)
    IN  IF i = 0 THEN p ELSE Slice(p, 1, i-1)

\* urlparse(url).path
UrlPath(url) ==
    LET sp == SplitScheme(url)
        p  == Before(Before(DropNetloc(sp.rest), 35), 63)
    IN  IF sp.scheme \in UsesParams /\ Find(p, 59, 1) > 0 THEN SplitParams(p) ELSE p

\* key = urlparse(requested_url).path.lstrip("/")
RequestedKey(url) == LStripSlash(UrlPath(url))

(***************************************************************************)
(* bytes.decode("utf-8") and str.encode("utf-8")                           *)
(***************************************************************************)
\* A continuation byte 10xxxxxx.
IsCont(b, i) == i <= Len(b) /\ b[i] \in 128..191

\* The number of bytes of the well-formed UTF-8 sequence starting at b[i],
\* 0 when b[i] starts none (strict decoding: no overlong forms, no
\* surrogates, nothing above U+10FFFF).
Utf8Width(b, i) ==
    LET b1 == b[i]
    IN  IF b1 <= 127 THEN 1
        ELSE IF b1 \in 194..223 THEN (IF IsCont(b, i+1) THEN 2 ELSE 0)
        ELSE IF b1 \in 224..239 THEN
            (IF /\ IsCont(b, i+1) /\ IsCont(b, i+2)
                /\ (b1 = 224 => b[i+1] >= 160)
                /\ (b1 = 237 => b[i+1] <= 159)
             THEN 3 ELSE 0)
        ELSE IF b1 \in 240..244 THEN
            (IF /\ IsCont(b, i+1) /\ IsCont(b, i+2) /\ IsCont(b, i+3)
                /\ (b1 = 240 => b[i+1] >= 144)
                /\ (b1 = 244 => b[i+1] <= 143)
             THEN 4 ELSE 0)
        ELSE 0

\* The code point of the w-byte sequence starting at b[i].
Utf8CodePoint(b, i, w) ==
    IF w = 1 THEN b[i]
    ELSE IF w = 2 THEN (b[i] - 192) * 64 + (b[i+1] - 128)
    ELSE IF w = 3 THEN (b[i] - 224) * 4096 + (b[i+1] - 128) * 64 + (b[i+2] - 128)
    ELSE (b[i] - 240) * 262144 + (b[i+1] - 128) * 4096
         + (b[i+2] - 128) * 64 + (b[i+3] - 128)

\* Decoding from b[i] on: [ok, text]; ok is FALSE when UnicodeDecodeError is raised.
RECURSIVE Utf8DecodeFrom(_, _)
Utf8DecodeFrom(b, i) ==
    IF i > Len(b) THEN [ok |-> TRUE, text |-> <<>>]
    ELSE LET w == Utf8Width(b, i)
         IN  IF w = 0 THEN [ok |-> FALSE, text |-> <<>>]
             ELSE LET rest == Utf8DecodeFrom(b, i + w)
                  IN  [ok |-> rest.ok,
                       text |-> IF rest.ok
                                THEN <<Utf8CodePoint(b, i, w)>> \o rest.text
                                ELSE <<>>]

\* body.decode("utf-8")
Utf8Decode(b) == Utf8DecodeFrom(b, 1)

\* The UTF-8 bytes of one code point.
Utf8Bytes(c) ==
    IF c <= 127 THEN <<c>>
    ELSE IF c <= 2047 THEN <<192 + (c \div 64), 128 + (c % 64)>>
    ELSE IF c <= 65535 THEN
        <<224 + (c \div 4096), 128 + ((c \div 64) % 64), 128 + (c % 64)>>
    ELSE <<240 + (c \div 262144), 128 + ((c \div 4096) % 64),
           128 + ((c \div 64) % 64), 128 + (c % 64)>>

\* redacted.encode("utf-8")
RECURSIVE Utf8Encode(_)
Utf8Encode(t) == IF t = <<>> THEN <<>> ELSE Utf8Bytes(Head(t)) \o Utf8Encode(Tail(t))

(***************************************************************************)
(* EMAIL_PATTERN = [a-zA-Z0-9.+_-]+@[a-zA-Z0-9._-]+\.[a-zA-Z]+             *)
(***************************************************************************)
\* [a-zA-Z0-9.+_-]
LocalClass == (97..122) \cup (65..90) \cup (48..57) \cup {46, 43, 95, 45}

\* [a-zA-Z0-9._-]
DomainClass == (97..122) \cup (65..90) \cup (48..57) \cup {46, 95, 45}

\* [a-zA-Z]
TldClass == (97..122) \cup (65..90)

\* The replacement string "[REDACTED_EMAIL]".
Placeholder == <<91,82,69,68,65,67,84,69,68,95,69,77,65,73,76,93>>

\* A greedy class+ starting at s[i]: the index after the longest run of cls.
RECURSIVE RunEnd(_, _, _)
RunEnd(s, i, cls) ==
    IF i <= Len(s) /\ s[i] \in cls THEN RunEnd(s, i + 1, cls) ELSE i

Max(S) == CHOOSE x \in S : \A y \in S : x >= y

\* The ends of the domain part the engine can settle on after "@" at s[at]:
\* the domain run is taken greedily and given back one character at a time
\* until "\." and one letter follow.
DomainEnds(s, at) ==
    {e \in (at + 2)..RunEnd(s, at + 1, DomainClass) :
        /\ e + 1 <= Len(s)
        /\ s[e] = 46
        /\ s[e + 1] \in TldClass}

\* The positions of "@" the engine can settle on for a match starting at
\* s[i]: the local run is taken greedily and given back one character at a time.
LocalEnds(s, i) ==
    {k \in (i + 1)..RunEnd(s, i, LocalClass) :
        /\ k <= Len(s)
        /\ s[k] = 64
        /\ DomainEnds(s, k) # {}}

\* A faulty variant of MatchEnd: the pattern ends in [a-zA-Z]{2,}, so that a
\* one-letter last label is no match.
MatchEndTwoLetterTld(s, i) ==
    LET dots(at) == {e \in DomainEnds(s, at) : e + 2 <= Len(s) /\ s[e + 2] \in TldClass}
        ats == {k \in LocalEnds(s, i) : dots(k) # {}}
    IN  IF ats = {} THEN 0 ELSE RunEnd(s, Max(dots(Max(ats))) + 1, TldClass)

\* EMAIL_PATTERN.match(s, i): the index after the match starting at s[i],
\* 0 when the pattern does not match there.
MatchEnd(s, i) ==
    IF LocalEnds(s, i) = {} THEN 0
    ELSE LET at  == Max(LocalEnds(s, i))
             dot == Max(DomainEnds(s, at))
         IN  RunEnd(s, dot + 1, TldClass)

\* A faulty variant of Sub: sub(..., count=1), only the first match is replaced.
RECURSIVE SubFirstFrom(_, _)
SubFirstFrom(s, i) ==
    IF i > Len(s) THEN <<>>
    ELSE LET e == MatchEnd(s, i)
         IN  IF e > 0 THEN Placeholder \o Slice(s, e, Len(s))
             ELSE <<s[i]>> \o SubFirstFrom(s, i + 1)

SubFirst(s) == SubFirstFrom(s, 1)

\* The scan of EMAIL_PATTERN.sub from s[i] on: a match is replaced and the
\* scan goes on after it, any other character is copied.
RECURSIVE SubFrom(_, _)
SubFrom(s, i) ==
    IF i > Len(s) THEN <<>>
    ELSE LET e == MatchEnd(s, i)
         IN  IF e > 0 THEN Placeholder \o SubFrom(s, e)
             ELSE <<s[i]>> \o SubFrom(s, i + 1)

\* EMAIL_PATTERN.sub("[REDACTED_EMAIL]", text)
Sub(s) == SubFrom(s, 1)

(***************************************************************************)
(* The redaction branch of lambda_handler.                                 *)
(***************************************************************************)
\* ".txt"
TxtSuffix == <<46,116,120,116>>

\* A faulty variant of Eligible: the suffix is compared without lower().
EligibleCaseSensitive(k) == EndsWith(k, TxtSuffix)

\* key.lower().endswith(".txt")
Eligible(k) == EndsWith(Lower(k), TxtSuffix)

\* A faulty variant of Redact: no try/except, a decode error leaves the handler.
RedactUnguarded(k, b) ==
    IF Eligible(k)
    THEN LET d == Utf8Decode(b)
         IN  IF d.ok
             THEN [output |-> Utf8Encode(Sub(d.text)), printed |-> <<k>>, raised |-> FALSE]
             ELSE [output |-> <<>>, printed |-> <<>>, raised |-> TRUE]
    ELSE [output |-> b, printed |-> <<>>, raised |-> FALSE]

\* decode("utf-8", errors="ignore") from b[i] on: undecodable bytes are dropped.
RECURSIVE Utf8DecodeIgnoreFrom(_, _)
Utf8DecodeIgnoreFrom(b, i) ==
    IF i > Len(b) THEN <<>>
    ELSE LET w == Utf8Width(b, i)
         IN  IF w = 0 THEN Utf8DecodeIgnoreFrom(b, i + 1)
             ELSE <<Utf8CodePoint(b, i, w)>> \o Utf8DecodeIgnoreFrom(b, i + w)

\* A faulty variant of Redact: the body is decoded with errors="ignore", so that
\* the decodable part of an undecodable body is redacted and served.
RedactIgnoreErrors(k, b) ==
    IF Eligible(k)
    THEN [output |-> Utf8Encode(Sub(Utf8DecodeIgnoreFrom(b, 1))),
          printed |-> <<k>>, raised |-> FALSE]
    ELSE [output |-> b, printed |-> <<>>, raised |-> FALSE]

\* A faulty variant of Redact: the body is decoded as latin-1, one code point a byte.
RedactLatin1(k, b) ==
    IF Eligible(k)
    THEN [output |-> Utf8Encode(Sub(b)), printed |-> <<k>>, raised |-> FALSE]
    ELSE [output |-> b, printed |-> <<>>, raised |-> FALSE]

\* A faulty variant of Redact: the diagnostic is printed before the decoding is tried.
RedactPrintFirst(k, b) ==
    IF Eligible(k)
    THEN LET d == Utf8Decode(b)
         IN  IF d.ok
             THEN [output |-> Utf8Encode(Sub(d.text)), printed |-> <<k>>, raised |-> FALSE]
             ELSE [output |-> b, printed |-> <<k>>, raised |-> FALSE]
    ELSE [output |-> b, printed |-> <<>>, raised |-> FALSE]

\* The if / try / except / else of the handler: the output bytes, the lines
\* printed, and whether an exception leaves the block.
Redact(k, b) ==
    IF Eligible(k)
    THEN LET d == Utf8Decode(b)
         IN  IF d.ok
             THEN [output |-> Utf8Encode(Sub(d.text)), printed |-> <<k>>, raised |-> FALSE]
             ELSE [output |-> b, printed |-> <<>>, raised |-> FALSE]
    ELSE [output |-> b, printed |-> <<>>, raised |-> FALSE]

(***************************************************************************)
(* The inputs of one invocation.                                           *)
(***************************************************************************)
\* "https://h"
Origin == <<104,116,116,112,115,58,47,47,104>>

\* What follows the host in event["userRequest"]["url"].
UrlTails ==
    { <<47,97,46,116,120,116>>,                          \* /a.txt
      <<47,97,46,84,88,84>>,                             \* /a.TXT
      <<47,47,97,46,116,120,116>>,                       \* //a.txt
      <<47,100,47,97,46,84,120,116>>,                    \* /d/a.Txt
      <<47,97,46,112,110,103>>,                          \* /a.png
      <<47,97,46,112,110,103,63,113,61,98,46,116,120,116>>,  \* /a.png?q=b.txt
      <<47,97,46,116,120,116,35,102>>,                   \* /a.txt#f
      <<47,97,46,116,120,116,63,118,61,49>>,             \* /a.txt?v=1
      <<47,97,116,120,116>>,                             \* /atxt
      <<47,97,46,116,120,116,59,112>>,                   \* /a.txt;p
      <<>> }                                             \* no path

\* The URLs an invocation may carry; the last one is a bare path, "/a.txt".
Urls == {Origin \o tail : tail \in UrlTails} \cup {<<47,97,46,116,120,116>>}

\* event["getObjectContext"]: outputRoute and outputToken.
Contexts == { [outputRoute |-> "route1", outputToken |-> "token1"],
              [outputRoute |-> "route2", outputToken |-> "token2"] }

\* os.environ["RAW_BUCKET_NAME"]
RAW_BUCKET_NAME == "raw-bucket"

\* The pieces enumerated bodies are made of: the bytes "a", "1", ".", "@",
\* "+", " ", 0xC3 and 0xA9 (together the UTF-8 of U+00E9, each alone
\* undecodable), and the address "a@b.c".
Chunks ==
    { <<97>>, <<49>>, <<46>>, <<64>>, <<43>>, <<32>>, <<195>>, <<169>>,
      <<97,64,98,46,99>> }

RECURSIVE Flatten(_)
Flatten(cs) == IF cs = <<>> THEN <<>> ELSE Head(cs) \o Flatten(Tail(cs))

\* Bodies of the scenarios of the specification and of the wider UTF-8 forms.
ScenarioBodies ==
    { \* contact: a.b@example.com today
      <<99,111,110,116,97,99,116,58,32,97,46,98,64,101,120,97,109,112,108,101,
        46,99,111,109,32,116,111,100,97,121>>,
      \* x@y.co
      <<120,64,121,46,99,111>>,
      \* alice@foo.com, bob@bar.org
      <<97,108,105,99,101,64,102,111,111,46,99,111,109,44,32,98,111,98,64,98,
        97,114,46,111,114,103>>,
      \* U+20AC a@b.c U+1F600 (three- and four-byte sequences)
      <<226,130,172,97,64,98,46,99,240,159,152,128>>,
      \* a@b.c followed by the overlong form C0 80
      <<97,64,98,46,99,192,128>>,
      \* the surrogate U+D800 encoded as ED A0 80
      <<237,160,128>>,
      \* a@b.c-d_e.f1@g.hi (the engine gives the domain run back to its last ".x")
      <<97,64,98,46,99,45,100,95,101,46,102,49,64,103,46,104,105>> }

\* The bodies the object source may return.
Bodies ==
    {Flatten(cs) : cs \in UNION {[1..n -> Chunks] : n \in 0..MaxChunks}}
        \cup ScenarioBodies

(***************************************************************************)
(* lambda_handler as a state machine.                                      *)
(***************************************************************************)
VARIABLES
    event,       \* the invocation's event: url, outputRoute, outputToken
    pc,          \* "start", "fetched", "transformed", "done" or "failed"
    key,         \* the local key
    body,        \* the local body
    output,      \* the local output
    printed,     \* the keys named by the lines printed so far
    gets,        \* the calls of s3.get_object so far: [Bucket, Key]
    writes,      \* the calls of s3.write_get_object_response so far
    raisedBy,    \* the step whose exception left the handler, "none" if none
    returned     \* what the handler returned: <<>> before it returns

vars == <<event, pc, key, body, output, printed, gets, writes, raisedBy, returned>>

Init ==
    /\ event \in {[url |-> u, outputRoute |-> c.outputRoute,
                   outputToken |-> c.outputToken] : u \in Urls, c \in Contexts}
    /\ pc = "start"
    /\ key = <<>>
    /\ body = <<>>
    /\ output = <<>>
    /\ printed = <<>>
    /\ gets = <<>>
    /\ writes = <<>>
    /\ raisedBy = "none"
    /\ returned = <<>>

\* The key is derived, and s3.get_object and resp["Body"].read() succeed.
GetObjectOk ==
    /\ pc = "start"
    /\ key' = RequestedKey(event.url)
    /\ gets' = Append(gets, [Bucket |-> RAW_BUCKET_NAME, Key |-> key'])
    /\ \E b \in Bodies : body' = b
    /\ pc' = "fetched"
    /\ UNCHANGED <<event, output, printed, writes, raisedBy, returned>>

\* A faulty variant of GetObjectFail: the error is swallowed and an empty body served.
GetObjectFailRecovered ==
    /\ pc = "start"
    /\ key' = RequestedKey(event.url)
    /\ gets' = Append(gets, [Bucket |-> RAW_BUCKET_NAME, Key |-> key'])
    /\ raisedBy' = "get_object"
    /\ pc' = "fetched"
    /\ UNCHANGED <<event, body, output, printed, writes, returned>>

\* The key is derived and s3.get_object (or the read of its body) raises:
\* the exception leaves the handler.
GetObjectFail ==
    /\ pc = "start"
    /\ key' = RequestedKey(event.url)
    /\ gets' = Append(gets, [Bucket |-> RAW_BUCKET_NAME, Key |-> key'])
    /\ raisedBy' = "get_object"
    /\ pc' = "failed"
    /\ UNCHANGED <<event, body, output, printed, writes, returned>>

\* The redaction branch.
RedactStep ==
    /\ pc = "fetched"
    /\ LET r == Redact(key, body)
       IN  /\ output' = r.output
           /\ printed' = printed \o r.printed
           /\ pc' = IF r.raised THEN "failed" ELSE "transformed"
           /\ raisedBy' = IF r.raised THEN "redact" ELSE raisedBy
    /\ UNCHANGED <<event, key, body, gets, writes, returned>>

\* s3.write_get_object_response succeeds and the handler returns.
WriteOk ==
    /\ pc = "transformed"
    /\ writes' = Append(writes, [Body |-> output,
                                 RequestRoute |-> event.outputRoute,
                                 RequestToken |-> event.outputToken])
    /\ returned' = <<[status_code |-> 200]>>
    /\ pc' = "done"
    /\ UNCHANGED <<event, key, body, output, printed, gets, raisedBy>>

\* s3.write_get_object_response raises: the exception leaves the handler.
WriteFail ==
    /\ pc = "transformed"
    /\ writes' = Append(writes, [Body |-> output,
                                 RequestRoute |-> event.outputRoute,
                                 RequestToken |-> event.outputToken])
    /\ raisedBy' = "write_get_object_response"
    /\ pc' = "failed"
    /\ UNCHANGED <<event, key, body, output, printed, gets, returned>>

Next ==
    \/ GetObjectOk
    \/ GetObjectFail
    \/ RedactStep
    \/ WriteOk
    \/ WriteFail

Spec == Init /\ [][Next]_vars

(***************************************************************************)
(* The vocabulary of the claims, stated from the specification's wording   *)
(* and independently of the operators above.                               *)
(***************************************************************************)
ClaimLetters == (65..90) \cup (97..122)
ClaimDigits == 48..57
\* letters, digits, ".", "+", "_", "-"
ClaimLocalChars == ClaimLetters \cup ClaimDigits \cup {46, 43, 95, 45}
\* letters, digits, ".", "_", "-"
ClaimDomainChars == ClaimLetters \cup ClaimDigits \cup {46, 95, 45}

\* The key ends with some upper/lower-case variant of ".txt".
ClaimEligible(k) ==
    /\ Len(k) >= 4
    /\ k[Len(k) - 3] = 46
    /\ k[Len(k) - 2] \in {116, 84}
    /\ k[Len(k) - 1] \in {120, 88}
    /\ k[Len(k)] \in {116, 84}

\* The places of "@" that end a local part starting at s[i].
ClaimAts(s, i) ==
    {a \in (i + 1)..Len(s) :
        s[a] = 64 /\ \A j \in i..(a - 1) : s[j] \in ClaimLocalChars}

\* The places of the "." that ends a domain part starting after s[a].
ClaimDots(s, a) ==
    {b \in (a + 2)..Len(s) :
        s[b] = 46 /\ \A j \in (a + 1)..(b - 1) : s[j] \in ClaimDomainChars}

\* The indexes after a run of one or more letters starting after s[b].
ClaimEnds(s, b) ==
    {e \in (b + 2)..(Len(s) + 1) : \A j \in (b + 1)..(e - 1) : s[j] \in ClaimLetters}

\* The ways <<a, b, e>> in which a prefix of s[i..] is an e-mail address:
\* local part s[i..a-1], "@" at a, domain s[a+1..b-1], "." at b, letters s[b+1..e-1].
ClaimSplits(s, i) ==
    UNION { UNION { { <<a, b, e>> : e \in ClaimEnds(s, b) } : b \in ClaimDots(s, a) }
            : a \in ClaimAts(s, i) }

\* Some substring of s matches the pattern.
ClaimHasMatch(s) == \E i \in 1..Len(s) : ClaimSplits(s, i) # {}

\* The greedy match starting at s[i]: the longest local part, then the
\* longest domain part, then the longest run of letters.
ClaimGreedyEnd(s, i) ==
    LET S == ClaimSplits(s, i)
        a == Max({x[1] : x \in S})
        b == Max({x[2] : x \in {y \in S : y[1] = a}})
    IN  Max({x[3] : x \in {y \in S : y[1] = a /\ y[2] = b}})

\* The text with every non-overlapping greedy match, scanned left to right
\* from s[i], replaced by "[REDACTED_EMAIL]".
RECURSIVE ClaimRedactedFrom(_, _)
ClaimRedactedFrom(s, i) ==
    IF i > Len(s) THEN <<>>
    ELSE IF ClaimSplits(s, i) # {}
         THEN <<91,82,69,68,65,67,84,69,68,95,69,77,65,73,76,93>>
                  \o ClaimRedactedFrom(s, ClaimGreedyEnd(s, i))
         ELSE <<s[i]>> \o ClaimRedactedFrom(s, i + 1)

ClaimRedacted(s) == ClaimRedactedFrom(s, 1)

\* The path with exactly one leading "/" removed.
ClaimKey(url) ==
    LET p == UrlPath(url) IN IF p # <<>> /\ Head(p) = 47 THEN Tail(p) ELSE p

\* The redaction branch has run.
Redacted == pc \in {"transformed", "done"} \/ writes # <<>>

\* The body decodes as UTF-8 text.
Decodes == Utf8Decode(body).ok
BodyText == Utf8Decode(body).text

\* alice@foo.com, bob@bar.org
ScenarioD ==
    <<97,108,105,99,101,64,102,111,111,46,99,111,109,44,32,98,111,98,64,98,
      97,114,46,111,114,103>>
\* [REDACTED_EMAIL], [REDACTED_EMAIL]
ScenarioDOut ==
    <<91,82,69,68,65,67,84,69,68,95,69,77,65,73,76,93,44,32,
      91,82,69,68,65,67,84,69,68,95,69,77,65,73,76,93>>

(***************************************************************************)
(* C1                                                                      *)
(***************************************************************************)
\* C1: for a key that ends with no case variant of ".txt" the output, and
\* the bytes handed to the response sink, are the body as the object source
\* returned it, whatever the body; and a key ending with any case variant of
\* ".txt" is redacted: a decodable body holding an address is changed.
C1_IneligiblePassThrough ==
    Redacted =>
        /\ ~ClaimEligible(key) =>
              /\ output = body
              /\ \A n \in 1..Len(writes) : writes[n].Body = body
        /\ (ClaimEligible(key) /\ Decodes /\ ClaimHasMatch(BodyText)) =>
              /\ output # body
              /\ \A n \in 1..Len(writes) : writes[n].Body # body

\* An ineligible, non-empty key whose body holds an address and undecodable
\* bytes has been served unchanged.
C1_Witness ==
    /\ pc = "done"
    /\ key # <<>>
    /\ ~ClaimEligible(key)
    /\ body = <<97,64,98,46,99,169>>
    /\ writes[1].Body = body

(***************************************************************************)
(* C2                                                                      *)
(***************************************************************************)
\* C2: for an eligible key and a decodable body the output is the UTF-8
\* encoding of the text with every non-overlapping greedy match of the
\* pattern, scanned left to right, replaced by "[REDACTED_EMAIL]" and all
\* other characters kept in order; "alice@foo.com, bob@bar.org" gives
\* "[REDACTED_EMAIL], [REDACTED_EMAIL]".
C2_EveryMatchReplaced ==
    (Redacted /\ ClaimEligible(key) /\ Decodes) =>
        /\ output = Utf8Encode(ClaimRedacted(BodyText))
        /\ body = ScenarioD => output = ScenarioDOut

\* Scenario D has been served with both addresses replaced.
C2_Witness ==
    /\ pc = "done"
    /\ ClaimEligible(key)
    /\ body = ScenarioD
    /\ writes[1].Body = ScenarioDOut

(***************************************************************************)
(* C3                                                                      *)
(***************************************************************************)
\* C3: for an eligible key and a body that is not valid UTF-8, no exception
\* leaves the redaction branch and the output is the body, byte for byte.
C3_DecodeFailurePassThrough ==
    (ClaimEligible(key) /\ pc # "start" /\ ~Decodes) =>
        /\ raisedBy # "redact"
        /\ Redacted => output = body

\* An eligible key whose body is an address followed by an undecodable byte
\* has been served unchanged.
C3_Witness ==
    /\ pc = "done"
    /\ ClaimEligible(key)
    /\ body = <<97,64,98,46,99,195>>
    /\ writes[1].Body = body

(***************************************************************************)
(* C4                                                                      *)
(***************************************************************************)
\* C4: for an eligible key and a decodable body without any match of the
\* pattern, the output is the body, byte for byte.
C4_NoMatchRoundTrip ==
    (Redacted /\ ClaimEligible(key) /\ Decodes /\ ~ClaimHasMatch(BodyText)) =>
        output = body

\* An eligible key whose body holds "@", "." and a two-byte character but no
\* address has gone through decoding and encoding unchanged.
C4_Witness ==
    /\ pc = "done"
    /\ ClaimEligible(key)
    /\ body = <<64,195,169>>
    /\ printed = <<key>>
    /\ output = body

(***************************************************************************)
(* C5                                                                      *)
(***************************************************************************)
\* C5: for an eligible key and any body, redacting the output again gives
\* the output: the second pass finds nothing to replace.
C5_Idempotent ==
    (Redacted /\ ClaimEligible(key)) => Redact(key, output).output = output

\* The output of an eligible key holds two placeholders.
C5_Witness ==
    /\ pc = "done"
    /\ ClaimEligible(key)
    /\ body = <<97,64,98,46,99,32,97,64,98,46,99>>
    /\ Len(output) = 33

(***************************************************************************)
(* C6                                                                      *)
(***************************************************************************)
\* C6: no exception leaves the redaction branch, whatever the key and the
\* body; and once the output has been handed to the response sink without
\* error the handler has returned status_code 200, also when decoding failed.
C6_RedactionNeverFails ==
    /\ raisedBy # "redact"
    /\ pc = "failed" => raisedBy \in {"get_object", "write_get_object_response"}
    /\ (writes # <<>> /\ raisedBy = "none") =>
          /\ pc = "done"
          /\ returned = <<[status_code |-> 200]>>
    /\ pc = "done" => returned = <<[status_code |-> 200]>>

\* The handler has returned 200 for an eligible key with an undecodable body.
C6_Witness ==
    /\ pc = "done"
    /\ ClaimEligible(key)
    /\ ~Decodes
    /\ returned = <<[status_code |-> 200]>>

(***************************************************************************)
(* C7                                                                      *)
(***************************************************************************)
\* C7: the object source is called exactly once and before the response
\* sink; the sink is called at most once: once, with the output and the
\* event's route and token, when retrieval succeeded, never when it failed;
\* a failed retrieval or delivery ends the invocation, nothing is retried.
C7_OneGetThenOneWrite ==
    /\ Len(gets) = IF pc = "start" THEN 0 ELSE 1
    /\ Len(writes) <= 1
    /\ writes # <<>> => (gets # <<>> /\ raisedBy # "get_object")
    /\ raisedBy = "get_object" => (pc = "failed" /\ writes = <<>>)
    /\ raisedBy = "write_get_object_response" => pc = "failed"
    /\ (pc \in {"done", "failed"} /\ raisedBy # "get_object") =>
          writes = <<[Body |-> output,
                      RequestRoute |-> event.outputRoute,
                      RequestToken |-> event.outputToken]>>
    /\ pc \in {"done", "failed"} => ~ENABLED Next

\* A redacted body has been delivered once, after one retrieval, with the
\* second context's route and token.
C7_Witness ==
    /\ pc = "done"
    /\ Len(gets) = 1
    /\ Len(writes) = 1
    /\ output # body
    /\ writes[1].RequestRoute = "route2"
    /\ writes[1].RequestToken = "token2"

(***************************************************************************)
(* C8                                                                      *)
(***************************************************************************)
\* C8: the key used for the retrieval and for the eligibility check is the
\* path of the requested URL with exactly one leading "/" removed; host,
\* query and fragment are no part of it.
C8_KeyIsPathLessOneSlash ==
    pc # "start" =>
        /\ key = ClaimKey(event.url)
        /\ gets[1].Key = key

(***************************************************************************)
(* C9                                                                      *)
(***************************************************************************)
\* C9 as stated: the diagnostic naming the key is printed only when at least
\* one match was replaced.
C9_PrintedOnlyWhenReplaced ==
    printed # <<>> => (Decodes /\ ClaimHasMatch(BodyText) /\ output # body)

\* C9 as amended: the diagnostic naming the key is printed exactly when the
\* key is eligible and the body decoded, whether or not a match was
\* replaced; never for an ineligible key or on a decode failure; and the
\* output is the redaction of the body when it is printed, the body when not.
C9_PrintedWhenPassRan ==
    Redacted =>
        /\ printed = IF ClaimEligible(key) /\ Decodes THEN <<key>> ELSE <<>>
        /\ output = IF printed # <<>> THEN Utf8Encode(ClaimRedacted(BodyText))
                    ELSE body

\* The diagnostic has been printed for an eligible key whose body held no
\* address.
C9_Witness ==
    /\ pc = "done"
    /\ printed = <<key>>
    /\ ClaimEligible(key)
    /\ body = <<97,46,97>>
    /\ output = body

(***************************************************************************)
(* C10                                                                     *)
(***************************************************************************)
\* C10: for an eligible key and a decodable body, no substring of the
\* decoded output matches the pattern.
C10_NoAddressSurvives ==
    (Redacted /\ ClaimEligible(key) /\ Decodes) =>
        /\ Utf8Decode(output).ok
        /\ ~ClaimHasMatch(Utf8Decode(output).text)

\* Two addresses joined by "@" have been replaced: the output holds a
\* placeholder with "@" on its right and on the left of the next one.
C10_Witness ==
    /\ pc = "done"
    /\ ClaimEligible(key)
    /\ body = <<97,64,98,46,99,64,97,64,98,46,99>>
    /\ Len(output) = 33
    /\ output[17] = 64

====
